---------------------------- MODULE Spec2Model ----------------------------
(***************************************************************************)
(* A model of the external table / view script generator                   *)
(* (generate_scripts_from_excel.py) and of the column exception reports    *)
(* (col_exception.py).                                                     *)
(*                                                                         *)
(* Text is modelled as a sequence of one-character strings, so that        *)
(* substring tests, case folding, regular-expression searches, number      *)
(* parsing and number formatting are computed as the code computes them.   *)
(* Python's None is the empty tuple and a present value v is <<v>>.        *)
(***************************************************************************)
EXTENDS Integers, Sequences, FiniteSets, TLC

VARIABLES
    pc,             \* position of the run being modelled
    row,            \* extractDataType: the DataFrame row passed in
    typeResult,     \* extractDataType: what the call produced
    sf_data,        \* col_exception: the rows of the source sheet 'Metadata'
    pq_data,        \* col_exception: the rows of the sheet 'Parquet_Metadata'
    defaultMetadata,\* col_exception: the rows of the sheet 'Default Metadata'
    exceptionFile,  \* col_exception: the sheets written to exceptionFilePath
    reconRaised,    \* col_exception: main() ended with an error raised
    tableName,                    \* the entity being rendered
    specificColumnsList,          \* its entity-specific tier
    nonSynapseDefaultColumnList,  \* its non-synapse default tier
    synapseDefaultColumnList,     \* its synapse (system) tier
    externalTableScript,          \* what createExternalTable returned
    viewScript,                   \* what createViewOnExternalTable returned
    allColumnsList,               \* the three tiers, concatenated
    errors,                       \* the except clauses that ran, in order
    df_excel,       \* writeScripts: the rows of the source sheet
    df_parquet,     \* writeScripts: the rows of the target (parquet) sheet
    df_non_synapse_default_col_n_types,  \* the non-synapse default sheet
    df_synapse_default_col_n_types,      \* the synapse default sheet
    config,         \* the configuration: its tables
    allScriptsInOne,\* one combined file per kind instead of one per entity
    df,             \* the merged, typed and filtered catalog
    tableIndex,     \* the position of the loop in config["tables"]
    combinedExternalScript,
    combinedViewScript,
    files           \* the files written, in the order they were written

typeVars == <<row, typeResult>>
reconVars == <<sf_data, pq_data, defaultMetadata, exceptionFile, reconRaised>>
tierVars == <<tableName, specificColumnsList, nonSynapseDefaultColumnList,
              synapseDefaultColumnList>>
renderVars == <<tierVars, allColumnsList, externalTableScript, viewScript, errors>>
inputVars == <<df_excel, df_parquet, df_non_synapse_default_col_n_types,
               df_synapse_default_col_n_types, config, allScriptsInOne>>
outputVars == <<combinedExternalScript, combinedViewScript, files>>
writeVars == <<inputVars, df, tableIndex, outputVars>>
vars == <<pc, typeVars, reconVars, renderVars, writeVars>>

-----------------------------------------------------------------------------
(* Bounds of the model *)

\* the longest run of blanks between a keyword and its number
MaxSpaces == 2
\* the most rows of each sheet the exception reports read
MaxReportRows == 2
\* the most columns of a tier handed to the script templates
MaxTierLen == 2
\* the most rows of the source sheet and of the target sheet writeScripts reads
MaxSourceRows == 2
MaxParquetRows == 2

-----------------------------------------------------------------------------
(* Python values and text primitives *)

None == <<>>
Some(v) == <<v>>

Lowers == <<"a","b","c","d","e","f","g","h","i","j","k","l","m","n","o","p","q","r","s","t","u","v","w","x","y","z">>
Uppers == <<"A","B","C","D","E","F","G","H","I","J","K","L","M","N","O","P","Q","R","S","T","U","V","W","X","Y","Z">>
DigitChars == <<"0","1","2","3","4","5","6","7","8","9">>

\* str.upper() and str.lower(), one character
UpperChar(c) == IF \E i \in 1..Len(Lowers) : Lowers[i] = c
                THEN Uppers[CHOOSE i \in 1..Len(Lowers) : Lowers[i] = c]
                ELSE c
LowerChar(c) == IF \E i \in 1..Len(Uppers) : Uppers[i] = c
                THEN Lowers[CHOOSE i \in 1..Len(Uppers) : Uppers[i] = c]
                ELSE c
Upper(s) == [i \in 1..Len(s) |-> UpperChar(s[i])]
Lower(s) == [i \in 1..Len(s) |-> LowerChar(s[i])]

\* Python's  a in b  for two strings: a is a substring of b
IsSubstring(a, b) ==
    \E i \in 1..(Len(b) - Len(a) + 1) : SubSeq(b, i, i + Len(a) - 1) = a

\* the regular-expression classes \s and \d
IsSpace(c) == c \in {" ", "\t", "\n"}
IsDigit(c) == \E i \in 1..Len(DigitChars) : DigitChars[i] = c
DigitVal(c) == (CHOOSE i \in 1..Len(DigitChars) : DigitChars[i] = c) - 1

\* the first index from j on whose character is not in the class (greedy *)
SkipWhile(s, j, InClass(_)) ==
    CHOOSE k \in j..(Len(s) + 1) :
        /\ \A m \in j..(k - 1) : InClass(s[m])
        /\ k = Len(s) + 1 \/ ~InClass(s[k])

\* int(text) of a run of digits
RECURSIVE ParseInt(_)
ParseInt(ds) ==
    IF ds = <<>> THEN 0
    ELSE ParseInt(SubSeq(ds, 1, Len(ds) - 1)) * 10 + DigitVal(ds[Len(ds)])

\* str(n) of a natural number, as an f-string formats it
RECURSIVE FormatInt(_)
FormatInt(n) ==
    IF n < 10 THEN <<DigitChars[n + 1]>>
    ELSE FormatInt(n \div 10) \o <<DigitChars[(n % 10) + 1]>>

NoneText == <<"N","o","n","e">>
NanText == <<"n","a","n">>

\* an f-string field holding an optional integer
FormatOptInt(o) == IF o = None THEN NoneText ELSE FormatInt(o[1])

\* re.search(keyword + r"\s*(\d+)", text): the places the pattern matches at
MatchStarts(keyword, text) ==
    {i \in 1..(Len(text) - Len(keyword) + 1) :
        /\ SubSeq(text, i, i + Len(keyword) - 1) = keyword
        /\ LET j == SkipWhile(text, i + Len(keyword), IsSpace)
           IN  j <= Len(text) /\ IsDigit(text[j])}

\* int(match.group(1)) of the leftmost match, None when there is no match
SearchNumber(keyword, text) ==
    LET starts == MatchStarts(keyword, text)
    IN  IF starts = {} THEN None
        ELSE LET i == CHOOSE a \in starts : \A b \in starts : a <= b
                 j == SkipWhile(text, i + Len(keyword), IsSpace)
                 k == SkipWhile(text, j, IsDigit)
             IN  Some(ParseInt(SubSeq(text, j, k - 1)))

-----------------------------------------------------------------------------
(* extractDataType *)

KwPrecision == <<"P","r","e","c","i","s","i","o","n",":">>
KwMaxLength == <<"M","a","x"," ","l","e","n","g","t","h",":">>

TyINTEGER == <<"I","N","T","E","G","E","R">>
TyBIGINT == <<"B","I","G","I","N","T">>
TyVARCHAR100 == <<"V","A","R","C","H","A","R","(","1","0","0",")">>
TyFLOAT == <<"F","L","O","A","T">>
TyVARCHAR50 == <<"V","A","R","C","H","A","R","(","5","0",")">>
TyVARCHARMAX == <<"V","A","R","C","H","A","R","(","M","A","X",")">>
TyVARCHAR5 == <<"V","A","R","C","H","A","R","(","5",")">>
TyNVARCHAR50 == <<"N","V","A","R","C","H","A","R","(","5","0",")">>
DecimalOpen == <<"D","E","C","I","M","A","L","(","3","8",",">>
NVarcharOpen == <<"N","V","A","R","C","H","A","R","(">>

BitMarker == <<"b","i","t">>
LargeTextMarker == <<"V","A","R","C","H","A","R","(","8","0","0","0",")">>
FloatMarker == <<"F","L","O","A","T">>

\* the size above which a multiline text becomes VARCHAR(MAX)
MaxVarcharSize == 8000

\* the Attribute Type of a row the right merge filled with NaN
NaN == "nan"

\* str(parquet_column_data_type) in ('bit'): a substring test on 'bit'
IsBitMarker(parquet) == IsSubstring(parquet, BitMarker)

\* a variant of IsBigIntMarker that knows the lower-case marker only
IsBigIntMarker_Lower(column_type) == column_type = "bigint"
\* column_type in ('BigInt', 'bigint')
IsBigIntMarker(column_type) == column_type \in {"BigInt", "bigint"}

\* str(parquet).upper() in ('VARCHAR(8000)') and column_type not in [...]
IsLargeText(parquet, column_type) ==
    /\ IsSubstring(Upper(parquet), LargeTextMarker)
    /\ column_type \notin {"Uniqueidentifier", "DateTime", "Text", "Multiline Text"}

\* str(parquet).upper() in ('FLOAT') or column_type in ["Double"]
IsFloat(parquet, column_type) ==
    IsSubstring(Upper(parquet), FloatMarker) \/ column_type = "Double"

\* a variant of DecimalType with the scale and the precision exchanged
DecimalType_Swapped(precision) ==
    <<"D","E","C","I","M","A","L","(">> \o FormatOptInt(precision) \o <<",","3","8",")">>
\* f"DECIMAL(38,{precision})"
DecimalType(precision) == DecimalOpen \o FormatOptInt(precision) \o <<")">>

\* f"NVARCHAR({size})"
NVarcharType(size) == NVarcharOpen \o FormatOptInt(size) \o <<")">>

Returned(data_type, size, precision) ==
    [raised |-> FALSE, data_type |-> Some(data_type),
     size |-> size, precision |-> precision]

\* the except clause: the error is logged and raised again
RaisedError == [raised |-> TRUE, data_type |-> None, size |-> None, precision |-> None]

extractDataType(r) ==
    LET column_type == r.attributeType
        parquet == r.parquetDataType
        additional_data == r.additionalData
    IN  IF IsBitMarker(parquet) THEN Returned(TyINTEGER, None, None)
        ELSE IF IsBigIntMarker(column_type) THEN Returned(TyBIGINT, None, None)
        ELSE IF IsLargeText(parquet, column_type) THEN Returned(TyVARCHAR100, None, None)
        ELSE IF IsFloat(parquet, column_type) THEN Returned(TyFLOAT, None, None)
        ELSE IF column_type \in {"Choice", "State", "Status", "ManagedProperty", "Whole number"}
             THEN Returned(TyINTEGER, None, None)
        ELSE IF column_type \in {"Currency", "Decimal"}
             THEN LET precision == SearchNumber(KwPrecision, additional_data)
                  IN  Returned(DecimalType(precision), None, precision)
        ELSE IF column_type \in {"Customer", "EntityName", "Lookup", "Owner",
                                 "Uniqueidentifier", "DateTime"}
             THEN Returned(TyVARCHAR50, None, None)
        ELSE IF column_type = "Multiline Text"
             THEN LET size == SearchNumber(KwMaxLength, additional_data)
                  IN  \* None > 8000 is a TypeError
                      IF size = None THEN RaisedError
                      ELSE IF size[1] > MaxVarcharSize
                           THEN Returned(TyVARCHARMAX, size, None)
                      ELSE IF size[1] # 0 THEN Returned(NVarcharType(size), size, None)
                      ELSE Returned(TyVARCHAR50, size, None)
        ELSE IF column_type = "PartyList" THEN Returned(TyVARCHAR100, None, None)
        ELSE IF column_type = "Two Options" THEN Returned(TyVARCHAR5, None, None)
        ELSE IF column_type = "Text"
             THEN LET size == SearchNumber(KwMaxLength, additional_data)
                  IN  IF size # None /\ size[1] # 0
                      THEN Returned(NVarcharType(size), size, None)
                      ELSE Returned(TyNVARCHAR50, size, None)
        ELSE IF column_type = "Virtual" THEN Returned(TyVARCHAR50, None, None)
        ELSE Returned(TyVARCHAR50, None, None)

-----------------------------------------------------------------------------
(* The inputs of the type mapper *)

AttributeTypes ==
    {"BigInt", "bigint", "Double", "Choice", "State", "Status", "ManagedProperty",
     "Whole number", "Currency", "Decimal", "Customer", "EntityName", "Lookup",
     "Owner", "Uniqueidentifier", "DateTime", "Multiline Text", "PartyList",
     "Two Options", "Text", "Virtual", "Image", NaN}

ParquetTypes ==
    {<<"b","i","t">>, <<"B","I","T">>, <<"i","t">>,
     <<"v","a","r","c","h","a","r","(","8","0","0","0",")">>,
     <<"n","v","a","r","c","h","a","r","(","4","0","0","0",")">>,
     <<"f","l","o","a","t">>, <<"i","n","t">>, NanText}

NumberTexts ==
    {<<>>, <<"4">>, <<"0","4">>, <<"0">>, <<"2","0","0">>,
     <<"8","0","0","0">>, <<"8","0","0","1">>}

Keywords ==
    {KwPrecision, KwMaxLength, <<"p","r","e","c","i","s","i","o","n",":">>,
     <<"M","i","n",":">>}

Blanks(n) == [i \in 1..n |-> " "]

\* "<keyword><blanks><number>", alone or after another such token, and 'nan'
Tokens == {k \o Blanks(n) \o d : k \in Keywords, n \in 0..MaxSpaces, d \in NumberTexts}
AdditionalDataTexts ==
    Tokens \cup {NanText}
    \cup {<<"M","i","n",":"," ","1",","," ">> \o t : t \in Tokens}
    \cup {KwPrecision \o <<" ","2",","," ">> \o KwMaxLength \o <<" ","9","0","0","0">>}

Rows == [attributeType : AttributeTypes, parquetDataType : ParquetTypes,
         additionalData : AdditionalDataTexts]

-----------------------------------------------------------------------------
(* The type mapper applied to one row *)

TypesIdle == row = None /\ typeResult = None
ReconIdle ==
    /\ sf_data = <<>> /\ pq_data = <<>> /\ defaultMetadata = <<>>
    /\ exceptionFile = <<>> /\ reconRaised = FALSE

RenderIdle ==
    /\ tableName = <<>> /\ specificColumnsList = None
    /\ nonSynapseDefaultColumnList = None /\ synapseDefaultColumnList = None
    /\ allColumnsList = <<>>
    /\ externalTableScript = None /\ viewScript = None /\ errors = <<>>
WriteIdle ==
    /\ df_excel = <<>> /\ df_parquet = <<>>
    /\ df_non_synapse_default_col_n_types = <<>>
    /\ df_synapse_default_col_n_types = <<>>
    /\ config = <<>> /\ allScriptsInOne = FALSE
    /\ df = None /\ tableIndex = 0
    /\ combinedExternalScript = <<>> /\ combinedViewScript = <<>> /\ files = <<>>

InitTypes ==
    /\ pc = "row"
    /\ row \in Rows
    /\ typeResult = None
    /\ ReconIdle
    /\ RenderIdle
    /\ WriteIdle

ExtractDataType ==
    /\ pc = "row"
    /\ typeResult' = Some(extractDataType(row))
    /\ pc' = "mapped"
    /\ UNCHANGED <<row, reconVars, renderVars, writeVars>>

NextTypes == ExtractDataType

SpecTypes == InitTypes /\ [][NextTypes]_vars

-----------------------------------------------------------------------------
(* col_exception.py: the column exception reports *)

SeqsUpTo(S, n) == UNION {[1..k -> S] : k \in 0..n}

\* the rows of a sequence that satisfy a test, in order (a boolean mask)
Filter(s, Keep(_)) ==
    LET kept == {i \in 1..Len(s) : Keep(s[i])}
    IN  [k \in 1..Cardinality(kept) |->
            s[CHOOSE i \in kept : Cardinality({j \in kept : j <= i}) = k]]

RECURSIVE Flatten(_)
Flatten(ss) == IF ss = <<>> THEN <<>> ELSE Head(ss) \o Flatten(Tail(ss))

\* Series.unique(): the distinct values in order of first appearance
RECURSIVE Unique(_)
Unique(s) ==
    IF s = <<>> THEN <<>>
    ELSE LET front == Unique(SubSeq(s, 1, Len(s) - 1))
             last == s[Len(s)]
         IN  IF \E i \in 1..Len(front) : front[i] = last THEN front
             ELSE Append(front, last)

\* the rows of pq_data a source row is merged with: the keys are compared as
\* they are
SFMatches(s, pq) ==
    Filter(pq, LAMBDA p : p.entity = s.entity /\ p.name = s.name)

\* pd.merge(sf_data, pq_data[[...]], on=[entity, name], how="left"): each source
\* row, in order, once per matching target row, or once with a NaN column id
LeftMergeSF(sf, pq) ==
    Flatten([i \in 1..Len(sf) |->
        LET m == SFMatches(sf[i], pq)
        IN  IF m = <<>>
            THEN <<[entity |-> sf[i].entity, name |-> sf[i].name, columnId |-> None]>>
            ELSE [j \in 1..Len(m) |->
                    [entity |-> sf[i].entity, name |-> sf[i].name,
                     columnId |-> m[j].columnId]]])

\* df_to_out[df_to_out['Parquet Column Id'].isna()]
colsInSFButNotInParquet(sf, pq) ==
    Filter(LeftMergeSF(sf, pq), LAMBDA r : r.columnId = None)

\* pq_data['Entity Logical Name'].unique()
tableList(pq) == Unique([i \in 1..Len(pq) |-> pq[i].entity])

\* set(def_columns) - set(pq_columns) for one table
missing_columns(table, defaults, pq) ==
    {Lower(defaults[i].name) : i \in 1..Len(defaults)}
    \ {Lower(pq[i].name) : i \in {k \in 1..Len(pq) : pq[k].entity = table}}

\* the orders a set may be iterated in
Orderings(S) ==
    {f \in [1..Cardinality(S) -> S] : \A i, j \in 1..Cardinality(S) : f[i] = f[j] => i = j}

\* missing_columns_report after the loop over tableList, for every iteration
\* order of the sets
RECURSIVE MissingReports(_, _, _)
MissingReports(tables, defaults, pq) ==
    IF tables = <<>> THEN {<<>>}
    ELSE {[i \in 1..Len(o) |-> [entity |-> Head(tables), name |-> o[i]]] \o rest :
            o \in Orderings(missing_columns(Head(tables), defaults, pq)),
            rest \in MissingReports(Tail(tables), defaults, pq)}

ReportEntities == {"E1", "E2"}
ReportNames ==
    {<<"c","o","l","A">>, <<"c","o","l","a">>, <<"c","o","l","B">>, <<"c","o","l","C">>}
KeyRows == [entity : ReportEntities, name : ReportNames]

\* the target sheet: every row carries its Parquet Column Id
WithColumnIds(keys) ==
    [i \in 1..Len(keys) |->
        [entity |-> keys[i].entity, name |-> keys[i].name, columnId |-> Some(i)]]

InitRecon ==
    /\ pc = "loaded"
    /\ sf_data \in SeqsUpTo(KeyRows, MaxReportRows)
    /\ \E keys \in SeqsUpTo(KeyRows, MaxReportRows) : pq_data = WithColumnIds(keys)
    /\ \E names \in SeqsUpTo(ReportNames, MaxReportRows) :
          defaultMetadata = [i \in 1..Len(names) |-> [name |-> names[i]]]
    /\ exceptionFile = <<>>
    /\ reconRaised = FALSE
    /\ TypesIdle
    /\ RenderIdle
    /\ WriteIdle

\* main(): colsInSFButNotInParquet writes the first sheet of a new file
ColsInSFButNotInParquet ==
    /\ pc = "loaded"
    /\ exceptionFile' =
          <<[sheet |-> "In SF Not in PQ",
             rows |-> colsInSFButNotInParquet(sf_data, pq_data)]>>
    /\ pc' = "sf_reported"
    /\ UNCHANGED <<sf_data, pq_data, defaultMetadata, reconRaised, typeVars, renderVars, writeVars>>

\* main(): colsInDefaultButNotInParquet appends its sheet; df_to_excel is
\* assigned in the loop over tableList only, so with no table it is unbound
\* where the sheet is written and the error reaches main(), which raises it
ColsInDefaultButNotInParquet ==
    /\ pc = "sf_reported"
    /\ IF tableList(pq_data) = <<>>
       THEN /\ reconRaised' = TRUE
            /\ UNCHANGED exceptionFile
       ELSE /\ \E rep \in MissingReports(tableList(pq_data), defaultMetadata, pq_data) :
                  exceptionFile' =
                     Append(exceptionFile,
                            [sheet |-> "Missing Columns in Parquet", rows |-> rep])
            /\ UNCHANGED reconRaised
    /\ pc' = "default_reported"
    /\ UNCHANGED <<sf_data, pq_data, defaultMetadata, typeVars, renderVars, writeVars>>

NextRecon == ColsInSFButNotInParquet \/ ColsInDefaultButNotInParquet

SpecRecon == InitRecon /\ [][NextRecon]_vars

-----------------------------------------------------------------------------
(* The script templates: createExternalTable and createViewOnExternalTable *)

\* separator.join(list)
RECURSIVE Join(_, _)
Join(separator, list) ==
    IF list = <<>> THEN <<>>
    ELSE IF Len(list) = 1 THEN list[1]
    ELSE list[1] \o separator \o Join(separator, Tail(list))

\* the maximal runs of characters that are not separators, in order
Pieces(text, IsSeparator(_)) ==
    LET starts == {i \in 1..Len(text) :
                      ~IsSeparator(text[i]) /\ (i = 1 \/ IsSeparator(text[i - 1]))}
    IN  [k \in 1..Cardinality(starts) |->
            LET i == CHOOSE a \in starts : Cardinality({b \in starts : b <= a}) = k
            IN  SubSeq(text, i, SkipWhile(text, i, LAMBDA c : ~IsSeparator(c)) - 1)]

\* str.split(): the words between runs of white space
SplitWords(text) == Pieces(text, IsSpace)

ColumnSeparator == <<",","\n","\t","\t">>
InnerColumnSeparator == <<",","\n","\t","\t","\t","\t">>
PartitionedSuffix == <<"_","p","a","r","t","i","t","i","o","n","e","d","/","P","a","r","t","i","t","i","o","n","I","d","=","*","/","*",".","s","n","a","p","p","y",".","p","a","r","q","u","e","t">>

TableText0 ==
    <<"\n","C","R","E","A","T","E"," ","E","X","T","E","R","N","A","L"," ","T","A","B","L","E"," ">>
TableText1 ==
    <<".","[">>
TableText2 ==
    <<"_","r","a","w","]"," ","\n","(","\n","\t","\t","/","*","*"," ","P","a","r","q","u","e","t"," ","C","r","e","a","t","i","o","n"," ","M","e","t","a","d","a","t","a"," ","*","*","/","\n","\n","\t","\t">>
TableText3 ==
    <<",","\n","\n","\t","\t","/","*","*"," ","D","a","t","a"," ","*","*","/","\n","\t","\t","/","*","*"," ","D","e","f","a","u","l","t"," ","M","e","t","a","d","a","t","a"," ","*","*","/","\n","\n","\t","\t">>
TableText4 ==
    <<",","\n","\n","\t","\t","/","*","*"," ","E","n","t","i","t","y"," ","S","p","e","c","i","f","i","c"," ","M","e","t","a","d","a","t","a"," ","*","*","/","\n","\n","\t","\t">>
TableText5 ==
    <<"\n",")","\n","W","I","T","H"," ","(","\n"," "," "," "," ","D","A","T","A","_","S","O","U","R","C","E"," ","="," ">>
TableText6 ==
    <<",","\n"," "," "," "," ","L","O","C","A","T","I","O","N"," ","="," ","N","'">>
TableText7 ==
    <<"'",",","\n"," "," "," "," ","F","I","L","E","_","F","O","R","M","A","T"," ","="," ">>
TableText8 ==
    <<",","\n"," "," "," "," ","R","E","J","E","C","T","_","T","Y","P","E"," ","="," ","V","A","L","U","E",",","\n"," "," "," "," ","R","E","J","E","C","T","_","V","A","L","U","E"," ","="," ","0","\n",")","\n","\n","G","O","\n">>
ViewText0 ==
    <<"\n","C","R","E","A","T","E"," ","V","I","E","W"," ">>
ViewText1 ==
    <<".">>
ViewText2 ==
    <<" ","\n","A","S","\n","S","E","L","E","C","T"," ","\n","\t","\t">>
ViewText3 ==
    <<" ","\n"," "," ","F","R","O","M"," ","\n"," "," "," "," ","(","\n"," "," "," "," "," "," "," "," ","S","E","L","E","C","T"," "," ">>
ViewText4 ==
    <<",","\n","\t","\t","\t","\t","R","O","W","_","N","U","M","B","E","R","(",")"," ","O","V","E","R"," ","(","P","A","R","T","I","T","I","O","N"," ","B","Y"," ","I","d"," ","O","R","D","E","R"," ","B","Y"," ","v","e","r","s","i","o","n","n","u","m","b","e","r"," ","D","E","S","C",")"," ","a","s"," ","_","r","o","w","_","i","d","\n"," "," "," "," "," "," "," "," "," "," ","F","R","O","M"," ">>
ViewText5 ==
    <<".","[">>
ViewText6 ==
    <<"_","r","a","w","]","\n"," "," "," "," ",")"," ","A","S"," ","A","\n"," ","W","H","E","R","E"," ","A",".","_","r","o","w","_","i","d"," ","="," ","1","\n"," "," "," ","A","N","D"," ","A",".","I","s","D","e","l","e","t","e"," ","I","S"," ","N","U","L","L","\n","\n","G","O","\n">>

\* ',\n\t\t'.join(columns) if columns else ''
FormatColumns(columns) ==
    IF columns # <<>> THEN Join(ColumnSeparator, columns) ELSE <<>>

\* a variant of TableColumnSections with the last two tiers exchanged
TableColumnSections_Swapped(specific, nonSynapse, synapse) ==
    TableText2 \o FormatColumns(synapse)
    \o TableText3 \o FormatColumns(specific)
    \o TableText4 \o FormatColumns(nonSynapse)
\* the column part of the table template: the synapse tier, the non-synapse
\* default tier, the entity-specific tier
TableColumnSections(specific, nonSynapse, synapse) ==
    TableText2 \o FormatColumns(synapse)
    \o TableText3 \o FormatColumns(nonSynapse)
    \o TableText4 \o FormatColumns(specific)

createExternalTable(table, specific, nonSynapse, synapse, schemaName, dataSource, fileFormat, locationPrefix) ==
    LET parquet_file_location == locationPrefix \o <<"/">> \o table \o PartitionedSuffix
    IN  TableText0 \o schemaName \o TableText1 \o table
        \o TableColumnSections(specific, nonSynapse, synapse)
        \o TableText5 \o dataSource \o TableText6 \o parquet_file_location
        \o TableText7 \o fileFormat \o TableText8

\* [column.split()[0] for column in allColumnsList]; an entry with no word
\* is an IndexError
HasWord(column) == SplitWords(column) # <<>>
ColumnNames(columns) ==
    [i \in 1..Len(columns) |-> SplitWords(columns[i])[1]]

\* createViewOnExternalTable: None when the call raises. With no column the
\* else branch assigns formattedAllColumnsInner and the template reads
\* formattedAllColumnInner, which is then unbound
createViewOnExternalTable(table, columns, schemaName) ==
    IF \E i \in 1..Len(columns) : ~HasWord(columns[i]) THEN None
    ELSE IF columns = <<>> THEN None
    ELSE LET allColumns == ColumnNames(columns)
         IN  Some(ViewText0 \o schemaName \o ViewText1 \o table
                  \o ViewText2 \o Join(ColumnSeparator, allColumns)
                  \o ViewText3 \o Join(InnerColumnSeparator, allColumns)
                  \o ViewText4 \o schemaName \o ViewText5 \o table \o ViewText6)

\* the entries of the configuration file the templates read
ConfigSchemaName == <<"d","3","6","5">>
ConfigDataSource == <<"d","s">>
ConfigFileFormat == <<"p","q">>
ConfigLocationPrefix == <<"r","a","w">>

Account == <<"a","c","c","o","u","n","t">>
Contact == <<"c","o","n","t","a","c","t">>

\* column declarations "<logical name> <data type>"
Declarations ==
    {<<"I","d"," ">> \o TyVARCHAR50,
     <<"a","m","o","u","n","t"," ">> \o DecimalOpen \o <<"4",")">>}

-----------------------------------------------------------------------------
(* writeScripts *)

defaultMetadataToExclusionList ==
    << <<"S","t","a","t","e","C","o","d","e">>,
      <<"S","t","a","t","u","s","C","o","d","e">>,
      <<"C","r","e","a","t","e","d","B","y">>,
      <<"C","r","e","a","t","e","d","B","y","_","E","n","t","i","t","y","T","y","p","e">>,
      <<"C","r","e","a","t","e","d","O","n","B","e","h","a","l","f","B","y">>,
      <<"C","r","e","a","t","e","d","O","n","B","e","h","a","l","f","B","y","_","E","n","t","i","t","y","T","y","p","e">>,
      <<"M","o","d","i","f","i","e","d","B","y">>,
      <<"M","o","d","i","f","i","e","d","B","y","_","E","n","t","i","t","y","T","y","p","e">>,
      <<"M","o","d","i","f","i","e","d","O","n","B","e","h","a","l","f","B","y">>,
      <<"M","o","d","i","f","i","e","d","O","n","B","e","h","a","l","f","B","y","_","E","n","t","i","t","y","T","y","p","e">>,
      <<"O","r","g","a","n","i","z","a","t","i","o","n","I","d">>,
      <<"O","r","g","a","n","i","z","a","t","i","o","n","I","d","_","E","n","t","i","t","y","T","y","p","e">>,
      <<"C","r","e","a","t","e","d","B","y","N","a","m","e">>,
      <<"C","r","e","a","t","e","d","B","y","Y","o","m","i","N","a","m","e">>,
      <<"C","r","e","a","t","e","d","O","n">>,
      <<"C","r","e","a","t","e","d","O","n","B","e","h","a","l","f","B","y","N","a","m","e">>,
      <<"C","r","e","a","t","e","d","O","n","B","e","h","a","l","f","B","y","Y","o","m","i","n","a","m","e">>,
      <<"M","o","d","i","f","i","e","d","B","y","N","a","m","e">>,
      <<"M","o","d","i","f","i","e","d","B","y","Y","o","m","i","N","a","m","e">>,
      <<"M","o","d","i","f","i","e","d","O","n">>,
      <<"M","o","d","i","f","i","e","d","O","n","B","e","h","a","l","f","B","y","N","a","m","e">>,
      <<"M","o","d","i","f","i","e","d","O","n","B","e","h","a","l","f","B","y","Y","o","m","i","N","a","m","e">>,
      <<"E","n","t","i","t","y","I","m","a","g","e","_","T","i","m","e","s","t","a","m","p">>,
      <<"E","n","t","i","t","y","I","m","a","g","e","_","U","r","l">>,
      <<"E","n","t","i","t","y","I","m","a","g","e","i","d">>,
      <<"I","m","p","o","r","t","S","e","q","u","e","n","c","e","N","u","m","b","e","r">>,
      <<"O","v","e","r","r","i","d","d","e","n","C","r","e","a","t","e","d","O","n">>,
      <<"i","d">>,
      <<"S","i","n","k","C","r","e","a","t","e","d","O","n">>,
      <<"S","i","n","k","M","o","d","i","f","i","e","d","O","n">>,
      <<"V","e","r","s","i","o","n","N","u","m","b","e","r">>,
      <<"i","s","D","e","l","e","t","e">>,
      <<"C","r","e","a","t","e","d","O","n","P","a","r","t","i","t","i","o","n">>,
      <<"U","n","i","q","u","e","D","s","c","I","d">>>>
\* col.split(' ', 1)[0]: the text before the first blank
BeforeFirstBlank(text) ==
    SubSeq(text, 1, SkipWhile(text, 1, LAMBDA c : c # " ") - 1)

\* str.strip()
Strip(text) ==
    LET inner == {i \in 1..Len(text) : ~IsSpace(text[i])}
    IN  IF inner = {} THEN <<>>
        ELSE SubSeq(text, CHOOSE a \in inner : \A b \in inner : a <= b,
                          CHOOSE a \in inner : \A b \in inner : a >= b)

\* [col.split(' ', 1)[0].lower().strip() for col in defaultMetadataToExclusionList()]
ExclusionKeys ==
    {Strip(Lower(BeforeFirstBlank(defaultMetadataToExclusionList[i]))) :
        i \in 1..Len(defaultMetadataToExclusionList)}

\* a variant of IsExcluded that compares the names as they are written
IsExcluded_CaseSensitive(name) ==
    name \in {defaultMetadataToExclusionList[i] : i \in 1..Len(defaultMetadataToExclusionList)}
\* df["Logical Name"].str.lower().isin(...)
IsExcluded(name) == Lower(name) \in ExclusionKeys

\* df_excel.loc[df_excel['Attribute Type'] != 'Virtual']
WithoutVirtual(source) == Filter(source, LAMBDA r : r.attributeType # "Virtual")

\* a variant of MergeRight that keeps the row order of the source sheet
MergeRight_SourceOrder(source, parquet) ==
    Flatten([i \in 1..Len(source) |->
        LET m == Filter(parquet, LAMBDA t : t.entity = source[i].entity /\ t.name = source[i].name)
        IN  [j \in 1..Len(m) |->
                [entity |-> m[j].entity, name |-> m[j].name,
                 attributeType |-> source[i].attributeType,
                 additionalData |-> source[i].additionalData,
                 parquetDataType |-> m[j].parquetDataType]]])
    \o Flatten([i \in 1..Len(parquet) |->
        IF \E k \in 1..Len(source) :
              source[k].entity = parquet[i].entity /\ source[k].name = parquet[i].name
        THEN <<>>
        ELSE <<[entity |-> parquet[i].entity, name |-> parquet[i].name,
                attributeType |-> NaN, additionalData |-> NanText,
                parquetDataType |-> parquet[i].parquetDataType]>>])
\* pd.merge(df, df_parquet[[...]], on=[entity, name], how='right'): each target
\* row, in order, once per matching source row (in source order), or once with
\* NaN in the source columns
MergeRight(source, parquet) ==
    Flatten([i \in 1..Len(parquet) |->
        LET t == parquet[i]
            m == Filter(source, LAMBDA r : r.entity = t.entity /\ r.name = t.name)
        IN  IF m = <<>>
            THEN <<[entity |-> t.entity, name |-> t.name,
                    attributeType |-> NaN, additionalData |-> NanText,
                    parquetDataType |-> t.parquetDataType]>>
            ELSE [j \in 1..Len(m) |->
                    [entity |-> t.entity, name |-> t.name,
                     attributeType |-> m[j].attributeType,
                     additionalData |-> m[j].additionalData,
                     parquetDataType |-> t.parquetDataType]]])

\* lines 284-296: the catalog merged, typed by extractDataType and filtered by
\* the exclusion list; None when extractDataType raises for a row
AnnotatedCatalog(source, parquet) ==
    LET merged == MergeRight(WithoutVirtual(source), parquet)
        typed == [i \in 1..Len(merged) |-> extractDataType(merged[i])]
    IN  IF \E i \in 1..Len(merged) : typed[i].raised THEN None
        ELSE Some(Filter(
                [i \in 1..Len(merged) |->
                    [entity |-> merged[i].entity, name |-> merged[i].name,
                     derivedDataType |-> typed[i].data_type[1]]],
                LAMBDA r : ~IsExcluded(r.name)))

\* populateEntityColumnList: f"{Logical Name} {Derived Data Type}" of the rows
\* of the entity
populateEntityColumnList(frame, entityName) ==
    LET filtered_df == Filter(frame, LAMBDA r : r.entity = entityName)
    IN  Some([i \in 1..Len(filtered_df) |->
                filtered_df[i].name \o <<" ">> \o filtered_df[i].derivedDataType])

\* populateNonSynapseDefaultColumnList: the default rows left-merged with the
\* target rows of the entity on the logical name, the rows found on both
\* sides kept; None when the sheet has no "Default Data Type" column (the
\* KeyError is logged and not raised)
populateNonSynapseDefaultColumnList(entityName, defaults, parquet) ==
    IF ~defaults.hasDataType THEN None
    ELSE LET filtered_df == Filter(parquet, LAMBDA t : t.entity = entityName)
         IN  Some(Flatten([i \in 1..Len(defaults.rows) |->
                  LET both == Filter(filtered_df, LAMBDA t : t.name = defaults.rows[i].name)
                  IN  [j \in 1..Len(both) |->
                          defaults.rows[i].name \o <<" ">> \o defaults.rows[i].dataType]]))

\* populateSynapseDefaultColumnList: every row of the synapse sheet; None when
\* a row is read and the sheet has no "Default Data Type" column
populateSynapseDefaultColumnList(defaults) ==
    IF ~defaults.hasDataType /\ defaults.rows # <<>> THEN None
    ELSE Some([i \in 1..Len(defaults.rows) |->
                 defaults.rows[i].name \o <<" ">> \o defaults.rows[i].dataType])

Logged(function, raised) == [function |-> function, raised |-> raised]

\* config['tableScriptPrefix'] ... config['viewScriptSuffix'] and the names of
\* the combined files
TableScriptPrefix == <<"t","_">>
ViewScriptPrefix == <<"v","_">>
ScriptSuffix == <<".","s","q","l">>
CombinedExternalTableScriptName == <<"t",".","s","q","l">>
CombinedViewScriptName == <<"v",".","s","q","l">>

\* lines 276-296 and the head of the loop
LoadAndAnnotate ==
    /\ pc = "load"
    /\ LET frame == AnnotatedCatalog(df_excel, df_parquet)
       IN  IF frame = None
           THEN /\ errors' = errors \o <<Logged("extractDataType", TRUE),
                                         Logged("writeScripts", TRUE)>>
                /\ pc' = "raised"
                /\ UNCHANGED <<df, tableIndex, tableName>>
           ELSE /\ df' = frame
                /\ tableIndex' = 1
                /\ tableName' = IF config.tables = <<>> THEN tableName ELSE config.tables[1]
                /\ pc' = IF config.tables = <<>> THEN "combine" ELSE "specific"
                /\ UNCHANGED errors
    /\ UNCHANGED <<specificColumnsList, nonSynapseDefaultColumnList,
                   synapseDefaultColumnList, allColumnsList, externalTableScript,
                   viewScript, inputVars, outputVars, typeVars, reconVars>>

\* line 303
PopulateEntityColumnList ==
    /\ pc = "specific"
    /\ specificColumnsList' = populateEntityColumnList(df[1], tableName)
    /\ pc' = "nonSynapse"
    /\ UNCHANGED <<tableName, nonSynapseDefaultColumnList, synapseDefaultColumnList,
                   allColumnsList, externalTableScript, viewScript, errors,
                   writeVars, typeVars, reconVars>>

\* line 304
PopulateNonSynapseDefaultColumnList ==
    /\ pc = "nonSynapse"
    /\ LET list == populateNonSynapseDefaultColumnList(tableName,
                      df_non_synapse_default_col_n_types, df_parquet)
       IN  /\ nonSynapseDefaultColumnList' = list
           /\ errors' = IF list = None
                        THEN Append(errors, Logged("populateNonSynapseDefaultColumnList", FALSE))
                        ELSE errors
    /\ pc' = "synapse"
    /\ UNCHANGED <<tableName, specificColumnsList, synapseDefaultColumnList,
                   allColumnsList, externalTableScript, viewScript,
                   writeVars, typeVars, reconVars>>

\* line 305
PopulateSynapseDefaultColumnList ==
    /\ pc = "synapse"
    /\ LET list == populateSynapseDefaultColumnList(df_synapse_default_col_n_types)
       IN  /\ synapseDefaultColumnList' = list
           /\ errors' = IF list = None
                        THEN Append(errors, Logged("populateSynapseDefaultColumnList", FALSE))
                        ELSE errors
    /\ pc' = "table"
    /\ UNCHANGED <<tableName, specificColumnsList, nonSynapseDefaultColumnList,
                   allColumnsList, externalTableScript, viewScript,
                   writeVars, typeVars, reconVars>>

\* a variant of CreateExternalTable that writes the table script of the entity
\* to its file as soon as it is rendered, before the view is rendered
CreateExternalTable_WritesTableFile ==
    /\ pc = "table"
    /\ None \notin {specificColumnsList, nonSynapseDefaultColumnList, synapseDefaultColumnList}
    /\ allColumnsList' = synapseDefaultColumnList[1]
                          \o nonSynapseDefaultColumnList[1] \o specificColumnsList[1]
    /\ externalTableScript' =
          Some(createExternalTable(tableName, specificColumnsList[1],
                  nonSynapseDefaultColumnList[1], synapseDefaultColumnList[1],
                  ConfigSchemaName, ConfigDataSource, ConfigFileFormat,
                  ConfigLocationPrefix))
    /\ files' = Append(files, [name |-> TableScriptPrefix \o tableName \o ScriptSuffix,
                               content |-> externalTableScript'[1]])
    /\ pc' = "view"
    /\ UNCHANGED <<tierVars, viewScript, errors, inputVars, df, tableIndex,
                   combinedExternalScript, combinedViewScript, typeVars, reconVars>>

\* lines 306-316: the tiers concatenated (a TypeError when one of them is
\* None) and rendered as a table
CreateExternalTable ==
    /\ pc = "table"
    /\ IF None \in {specificColumnsList, nonSynapseDefaultColumnList, synapseDefaultColumnList}
       THEN /\ errors' = Append(errors, Logged("writeScripts", TRUE))
            /\ pc' = "raised"
            /\ UNCHANGED <<allColumnsList, externalTableScript>>
       ELSE /\ allColumnsList' = synapseDefaultColumnList[1]
                                 \o nonSynapseDefaultColumnList[1] \o specificColumnsList[1]
            /\ externalTableScript' =
                  Some(createExternalTable(tableName, specificColumnsList[1],
                          nonSynapseDefaultColumnList[1], synapseDefaultColumnList[1],
                          ConfigSchemaName, ConfigDataSource, ConfigFileFormat,
                          ConfigLocationPrefix))
            /\ pc' = "view"
            /\ UNCHANGED errors
    /\ UNCHANGED <<tierVars, viewScript, writeVars, typeVars, reconVars>>

\* lines 318-322: the view over all the columns; the except clause of
\* createViewOnExternalTable logs the error and raises it, and so does the
\* except clause of writeScripts
CreateViewOnExternalTable ==
    /\ pc = "view"
    /\ LET view == createViewOnExternalTable(tableName, allColumnsList, ConfigSchemaName)
       IN  /\ viewScript' = view
           /\ errors' = IF view = None
                        THEN errors \o <<Logged("createViewOnExternalTable", TRUE),
                                         Logged("writeScripts", TRUE)>>
                        ELSE errors
           /\ pc' = IF view = None THEN "raised" ELSE "emit"
    /\ UNCHANGED <<tierVars, allColumnsList, externalTableScript,
                   writeVars, typeVars, reconVars>>

\* lines 324-341 and the head of the loop: the two scripts appended to the
\* combined scripts, or written to the two files of the entity
EmitScripts ==
    /\ pc = "emit"
    /\ IF allScriptsInOne
       THEN /\ combinedExternalScript' =
                  combinedExternalScript \o <<"\n">> \o externalTableScript[1] \o <<"\n">>
            /\ combinedViewScript' =
                  combinedViewScript \o <<"\n">> \o viewScript[1] \o <<"\n">>
            /\ UNCHANGED files
       ELSE /\ files' = files \o
                  <<[name |-> TableScriptPrefix \o tableName \o ScriptSuffix,
                     content |-> externalTableScript[1]],
                    [name |-> ViewScriptPrefix \o tableName \o ScriptSuffix,
                     content |-> viewScript[1]]>>
            /\ UNCHANGED <<combinedExternalScript, combinedViewScript>>
    /\ tableIndex' = tableIndex + 1
    /\ tableName' = IF tableIndex < Len(config.tables)
                    THEN config.tables[tableIndex + 1] ELSE tableName
    /\ pc' = IF tableIndex < Len(config.tables) THEN "specific" ELSE "combine"
    /\ UNCHANGED <<specificColumnsList, nonSynapseDefaultColumnList,
                   synapseDefaultColumnList, allColumnsList, externalTableScript,
                   viewScript, errors, inputVars, df, typeVars, reconVars>>

\* lines 343-351
WriteCombined ==
    /\ pc = "combine"
    /\ files' = IF allScriptsInOne
                THEN files \o
                     <<[name |-> CombinedExternalTableScriptName,
                        content |-> combinedExternalScript],
                       [name |-> CombinedViewScriptName, content |-> combinedViewScript]>>
                ELSE files
    /\ pc' = "done"
    /\ UNCHANGED <<renderVars, inputVars, df, tableIndex, combinedExternalScript,
                   combinedViewScript, typeVars, reconVars>>

-----------------------------------------------------------------------------
(* The script templates applied to three tiers *)

InitRender ==
    /\ pc = "table"
    /\ tableName \in {Account}
    /\ \E tier \in SeqsUpTo(Declarations, MaxTierLen) : specificColumnsList = Some(tier)
    /\ \E tier \in SeqsUpTo(Declarations, MaxTierLen) : nonSynapseDefaultColumnList = Some(tier)
    /\ \E tier \in SeqsUpTo(Declarations, MaxTierLen) : synapseDefaultColumnList = Some(tier)
    /\ allColumnsList = <<>>
    /\ externalTableScript = None
    /\ viewScript = None
    /\ errors = <<>>
    /\ TypesIdle
    /\ ReconIdle
    /\ WriteIdle

NextRender == CreateExternalTable \/ CreateViewOnExternalTable

SpecRender == InitRender /\ [][NextRender]_vars

-----------------------------------------------------------------------------
(* writeScripts run over a source sheet, a target sheet and the default sheets *)

NameColumn == <<"n","a","m","e">>
AmountColumn == <<"a","m","o","u","n","t">>
StateCodeColumn == <<"s","t","a","t","e","c","o","d","e">>

SourcePool ==
    {[entity |-> Account, name |-> NameColumn, attributeType |-> "Text",
      additionalData |-> KwMaxLength \o <<" ","2","0","0">>],
     [entity |-> Account, name |-> AmountColumn, attributeType |-> "Currency",
      additionalData |-> KwPrecision \o <<" ","4">>],
     [entity |-> Account, name |-> AmountColumn, attributeType |-> "Virtual",
      additionalData |-> NanText],
     [entity |-> Contact, name |-> NameColumn, attributeType |-> "Multiline Text",
      additionalData |-> NanText]}

ParquetPool ==
    {[entity |-> Account, name |-> NameColumn,
      parquetDataType |-> <<"n","v","a","r","c","h","a","r","(","4","0","0","0",")">>],
     [entity |-> Account, name |-> AmountColumn,
      parquetDataType |-> <<"d","e","c","i","m","a","l">>],
     [entity |-> Account, name |-> StateCodeColumn, parquetDataType |-> <<"i","n","t">>],
     [entity |-> Contact, name |-> NameColumn,
      parquetDataType |-> <<"n","v","a","r","c","h","a","r","(","4","0","0","0",")">>]}

StateCodeDefault == [name |-> StateCodeColumn, dataType |-> TyINTEGER]
NameDefault == [name |-> NameColumn, dataType |-> TyVARCHAR100]
\* a registry row written as the exclusion list writes the name
StateCodeCapitalDefault ==
    [name |-> <<"S","t","a","t","e","C","o","d","e">>, dataType |-> TyINTEGER]

\* the non-synapse default sheet: its rows, and whether it has the column
\* "Default Data Type"
NonSynapseSheets ==
    {[hasDataType |-> TRUE, rows |-> <<>>],
     [hasDataType |-> TRUE, rows |-> <<StateCodeDefault, NameDefault>>],
     [hasDataType |-> TRUE, rows |-> <<NameDefault, StateCodeDefault>>],
     [hasDataType |-> TRUE, rows |-> <<StateCodeCapitalDefault>>],
     [hasDataType |-> FALSE, rows |-> <<StateCodeDefault, NameDefault>>]}

SynapseSheets ==
    {[hasDataType |-> TRUE, rows |-> <<[name |-> <<"I","d">>, dataType |-> TyVARCHAR50]>>]}

\* the target sheet holds at least one row
InitWrite ==
    /\ pc = "load"
    /\ df_excel \in SeqsUpTo(SourcePool, MaxSourceRows)
    /\ df_parquet \in SeqsUpTo(ParquetPool, MaxParquetRows) \ {<<>>}
    /\ df_non_synapse_default_col_n_types \in NonSynapseSheets
    /\ df_synapse_default_col_n_types \in SynapseSheets
    /\ config = [tables |-> <<Account, Contact>>]
    /\ allScriptsInOne \in BOOLEAN
    /\ df = None
    /\ tableIndex = 0
    /\ combinedExternalScript = <<>>
    /\ combinedViewScript = <<>>
    /\ files = <<>>
    /\ RenderIdle
    /\ TypesIdle
    /\ ReconIdle

NextWrite ==
    \/ LoadAndAnnotate
    \/ PopulateEntityColumnList
    \/ PopulateNonSynapseDefaultColumnList
    \/ PopulateSynapseDefaultColumnList
    \/ CreateExternalTable
    \/ CreateViewOnExternalTable
    \/ EmitScripts
    \/ WriteCombined

SpecWrite == InitWrite /\ [][NextWrite]_vars

-----------------------------------------------------------------------------
(* writeScripts run over a configured list of entities, some of which have no
   column at all *)

\* the source sheets of these runs
RunSourceSheets ==
    {<<>>,
     <<[entity |-> Account, name |-> NameColumn, attributeType |-> "Text",
        additionalData |-> KwMaxLength \o <<" ","2","0","0">>]>>,
     <<[entity |-> Contact, name |-> NameColumn, attributeType |-> "Multiline Text",
        additionalData |-> NanText]>>}

\* the synapse default sheet, with no row or with one
RunSynapseSheets ==
    SynapseSheets \cup {[hasDataType |-> TRUE, rows |-> <<>>]}

\* config["tables"]
RunTables == {<<Account>>, <<Account, Contact>>, <<Contact, Account>>}

InitRun ==
    /\ pc = "load"
    /\ df_excel \in RunSourceSheets
    /\ df_parquet \in SeqsUpTo(ParquetPool, MaxParquetRows) \ {<<>>}
    /\ df_non_synapse_default_col_n_types \in NonSynapseSheets
    /\ df_synapse_default_col_n_types \in RunSynapseSheets
    /\ \E tables \in RunTables : config = [tables |-> tables]
    /\ allScriptsInOne \in BOOLEAN
    /\ df = None
    /\ tableIndex = 0
    /\ combinedExternalScript = <<>>
    /\ combinedViewScript = <<>>
    /\ files = <<>>
    /\ RenderIdle
    /\ TypesIdle
    /\ ReconIdle

SpecRun == InitRun /\ [][NextWrite]_vars

-----------------------------------------------------------------------------
(* Claims about the type mapper, checked under SpecTypes *)

Mapped == pc = "mapped"
Result == typeResult[1]

NoPrecedingRule(parquet) ==
    /\ ~IsSubstring(parquet, BitMarker)
    /\ ~IsSubstring(Upper(parquet), LargeTextMarker)
    /\ ~IsSubstring(Upper(parquet), FloatMarker)

\* C1: a "Multiline Text" row whose additional data holds no "Max length: N"
\* token is mapped without an error and never to a null type; the Multiline
\* Text rule (reached when no earlier rule of the table takes the row) gives it
\* the type VARCHAR(50).
C1_MultilineWithoutMaxLengthIsVarchar50 ==
    (/\ Mapped
     /\ row.attributeType = "Multiline Text"
     /\ MatchStarts(KwMaxLength, row.additionalData) = {})
    => (/\ ~Result.raised
        /\ Result.data_type # None
        /\ NoPrecedingRule(row.parquetDataType)
              => Result.data_type = Some(TyVARCHAR50))

\* C2 as stated: a "BigInt" row is mapped to BIGINT whatever its additional data
\* and whatever its Parquet Data Type.
C2_BigIntAlwaysBIGINT ==
    (Mapped /\ row.attributeType = "BigInt")
    => (~Result.raised /\ Result.data_type = Some(TyBIGINT))

\* C2 amended: a "BigInt" row whose Parquet Data Type is not a substring of
\* 'bit' is mapped to BIGINT whatever its additional data; one whose Parquet
\* Data Type is a substring of 'bit' is mapped to INTEGER.
C2_BigIntUnlessBit ==
    (Mapped /\ row.attributeType = "BigInt")
    => (/\ ~Result.raised
        /\ Result.data_type =
              IF IsSubstring(row.parquetDataType, BitMarker)
              THEN Some(TyINTEGER) ELSE Some(TyBIGINT))

C2_Witness ==
    /\ Mapped
    /\ row.attributeType = "BigInt"
    /\ row.parquetDataType = <<"v","a","r","c","h","a","r","(","8","0","0","0",")">>
    /\ row.additionalData = KwMaxLength \o <<" ","8","0","0","1">>
    /\ Result.data_type = Some(TyBIGINT)

PrecisionFour ==
    {KwPrecision \o <<"4">>, KwPrecision \o <<" ","4">>, KwPrecision \o <<" "," ","4">>,
     KwPrecision \o <<" ","0","4">>,
     <<"M","i","n",":"," ","1",","," ">> \o KwPrecision \o <<" ","4">>}

DecimalIs(n) ==
    /\ ~Result.raised
    /\ Result.data_type = Some(DecimalOpen \o FormatInt(n) \o <<")">>)
    /\ Result.precision = Some(n)

\* C3 as stated: a "Currency" or "Decimal" row whose additional data holds a
\* "Precision: N" token is mapped to DECIMAL(38,N) with precision N, whatever
\* its Parquet Data Type; "Precision: 4" gives DECIMAL(38,4).
C3_PrecisionAlwaysDecimal ==
    (/\ Mapped
     /\ row.attributeType \in {"Currency", "Decimal"}
     /\ MatchStarts(KwPrecision, row.additionalData) # {})
    => (/\ DecimalIs(SearchNumber(KwPrecision, row.additionalData)[1])
        /\ row.additionalData \in PrecisionFour
              => Result.data_type = Some(DecimalOpen \o <<"4",")">>))

\* C3 amended: the same, for the rows no earlier rule takes: the Parquet Data
\* Type is not a substring of 'bit' and, in upper case, not a substring of
\* 'VARCHAR(8000)' or of 'FLOAT'.
C3_PrecisionDecimalUnlessPreceded ==
    (/\ Mapped
     /\ row.attributeType \in {"Currency", "Decimal"}
     /\ MatchStarts(KwPrecision, row.additionalData) # {}
     /\ NoPrecedingRule(row.parquetDataType))
    => (/\ DecimalIs(SearchNumber(KwPrecision, row.additionalData)[1])
        /\ row.additionalData \in PrecisionFour
              => (/\ Result.data_type = Some(DecimalOpen \o <<"4",")">>)
                  /\ Result.precision = Some(4)))

C3_Witness ==
    /\ Mapped
    /\ row.attributeType = "Currency"
    /\ row.parquetDataType = <<"n","v","a","r","c","h","a","r","(","4","0","0","0",")">>
    /\ row.additionalData = KwPrecision \o <<" ","4">>
    /\ Result.data_type = Some(DecimalOpen \o <<"4",")">>)
    /\ Result.precision = Some(4)

-----------------------------------------------------------------------------
(* Claims about the exception reports, checked under SpecRecon *)

Keys(rows) == [i \in 1..Len(rows) |-> [entity |-> rows[i].entity, name |-> rows[i].name]]

SheetRows(sheetName) ==
    LET found == Filter(exceptionFile, LAMBDA sh : sh.sheet = sheetName)
    IN  IF found = <<>> THEN None ELSE Some(found[1].rows)

\* the target catalog has a row of the same entity whose logical name is the
\* same up to letter case
InTargetFolded(s) ==
    \E i \in 1..Len(pq_data) :
        pq_data[i].entity = s.entity /\ Lower(pq_data[i].name) = Lower(s.name)

\* C5: the sheet "In SF Not in PQ" holds exactly the source rows for which the
\* target catalog has no row of the same entity and the same logical name, the
\* logical names compared without regard to letter case.
C5_SourceNotInTargetFolded ==
    pc # "loaded"
    => (/\ SheetRows("In SF Not in PQ") # None
        /\ Keys(SheetRows("In SF Not in PQ")[1])
              = Filter(sf_data, LAMBDA s : ~InTargetFolded(s)))

CountRows(rows, r) == Cardinality({i \in 1..Len(rows) : rows[i] = r})

\* C6: for every target catalog and default catalog the sheet "Missing Columns
\* in Parquet" holds, for each entity E of the target catalog and each
\* case-folded default name n not among the case-folded target names of E,
\* exactly one row (E, n), and no other row.
C6_DefaultNotInTargetReported ==
    pc = "default_reported"
    => (/\ ~reconRaised
        /\ SheetRows("Missing Columns in Parquet") # None
        /\ LET rows == SheetRows("Missing Columns in Parquet")[1]
               entities == {pq_data[i].entity : i \in 1..Len(pq_data)}
               expected ==
                  {[entity |-> e, name |-> n] :
                      e \in entities,
                      n \in {Lower(defaultMetadata[i].name) : i \in 1..Len(defaultMetadata)}}
                  \ {[entity |-> pq_data[i].entity, name |-> Lower(pq_data[i].name)] :
                        i \in 1..Len(pq_data)}
           IN  /\ \A r \in expected : CountRows(rows, r) = 1
               /\ \A i \in 1..Len(rows) : rows[i] \in expected)

\* the part of C6 the code satisfies: a target catalog with at least one row
C6_HoldsForNonEmptyTarget == pq_data # <<>> => C6_DefaultNotInTargetReported
C5_HoldsForSameCase ==
    (\A i \in 1..Len(sf_data) : sf_data[i].name = Lower(sf_data[i].name))
    /\ (\A i \in 1..Len(pq_data) : pq_data[i].name = Lower(pq_data[i].name))
    => C5_SourceNotInTargetFolded

-----------------------------------------------------------------------------
(* Claims about the script templates, checked under SpecRender *)

RankingClause ==
    <<"R","O","W","_","N","U","M","B","E","R","(",")"," ","O","V","E","R"," ","(","P","A","R","T","I","T","I","O","N"," ","B","Y"," ","I","d"," ","O","R","D","E","R"," ","B","Y"," ","v","e","r","s","i","o","n","n","u","m","b","e","r"," ","D","E","S","C",")">>
RankOneFilter == <<"W","H","E","R","E"," ","A",".","_","r","o","w","_","i","d"," ","="," ","1">>
DeleteFilter == <<"A","N","D"," ","A",".","I","s","D","e","l","e","t","e"," ","I","S"," ","N","U","L","L">>

Occurrences(pattern, text) ==
    Cardinality({i \in 1..(Len(text) - Len(pattern) + 1) :
                    SubSeq(text, i, i + Len(pattern) - 1) = pattern})

ViewIsDeduplicating ==
    /\ viewScript # None
    /\ Occurrences(RankingClause, viewScript[1]) = 1
    /\ Occurrences(RankOneFilter, viewScript[1]) = 1
    /\ Occurrences(DeleteFilter, viewScript[1]) = 1

\* C7: for every column list, the empty list included, the view text holds
\* exactly one ranking clause partitioned by Id and ordered by versionnumber
\* descending, keeps rank 1 only and keeps the rows whose IsDelete is null.
C7_ViewAlwaysDeduplicates ==
    pc \in {"emit", "raised"} => ViewIsDeduplicating

\* the part of C7 the code satisfies: a column list with at least one column
C7_HoldsForNonEmptyList ==
    (/\ pc \in {"emit", "raised"}
     /\ allColumnsList # <<>>)
    => ViewIsDeduplicating

StartsWith(word, prefix) ==
    Len(word) >= Len(prefix) /\ SubSeq(word, 1, Len(prefix)) = prefix

\* the lines of a text, blank lines left out
Lines(text) == Pieces(text, LAMBDA c : c = "\n")

\* a line without the comma that ends it
WithoutComma(line) ==
    LET words == SplitWords(line)
        last == words[Len(words)]
    IN  IF words = <<>> THEN <<>>
        ELSE IF last[Len(last)] = ","
             THEN SubSeq(words, 1, Len(words) - 1)
                  \o (IF Len(last) = 1 THEN <<>> ELSE <<SubSeq(last, 1, Len(last) - 1)>>)
        ELSE words

\* the column names a table text declares, top to bottom: of every line
\* between the "(" line and the ")" line that is not a comment and holds more
\* than a comma, the first word
DeclaredColumnNames(text) ==
    LET lines == Lines(text)
        open == CHOOSE i \in 1..Len(lines) :
                    /\ SplitWords(lines[i]) = << <<"(">> >>
                    /\ \A j \in 1..(i - 1) : SplitWords(lines[j]) # << <<"(">> >>
        close == CHOOSE i \in (open + 1)..Len(lines) :
                    /\ SplitWords(lines[i]) = << <<")">> >>
                    /\ \A j \in (open + 1)..(i - 1) : SplitWords(lines[j]) # << <<")">> >>
        body == SubSeq(lines, open + 1, close - 1)
        declared == Filter(body, LAMBDA l :
                        /\ WithoutComma(l) # <<>>
                        /\ ~StartsWith(WithoutComma(l)[1], <<"/","*","*">>))
    IN  [i \in 1..Len(declared) |-> WithoutComma(declared[i])[1]]

\* C8: the column names the table text declares, read top to bottom, are the
\* names of the synapse tier, then of the non-synapse default tier, then of
\* the entity-specific tier: none added, dropped or reordered.
C8_TableDeclaresTiersInOrder ==
    externalTableScript # None
    => DeclaredColumnNames(externalTableScript[1])
          = ColumnNames(synapseDefaultColumnList[1] \o nonSynapseDefaultColumnList[1]
                        \o specificColumnsList[1])

C8_Witness ==
    /\ pc = "emit"
    /\ synapseDefaultColumnList = Some(
          << <<"I","d"," ">> \o TyVARCHAR50,
             <<"a","m","o","u","n","t"," ">> \o DecimalOpen \o <<"4",")">> >>)
    /\ nonSynapseDefaultColumnList =
          Some(<< <<"a","m","o","u","n","t"," ">> \o DecimalOpen \o <<"4",")">> >>)
    /\ specificColumnsList = Some(
          << <<"a","m","o","u","n","t"," ">> \o DecimalOpen \o <<"4",")">>,
             <<"I","d"," ">> \o TyVARCHAR50 >>)
    /\ DeclaredColumnNames(externalTableScript[1])
          = << <<"I","d">>, <<"a","m","o","u","n","t">>, <<"a","m","o","u","n","t">>,
               <<"a","m","o","u","n","t">>, <<"I","d">> >>

-----------------------------------------------------------------------------
(* Claims about writeScripts, checked under SpecWrite *)

\* the entity-specific tier in hand is the one of tableName
SpecificTierInHand ==
    pc \in {"nonSynapse", "synapse", "table", "view", "emit"} /\ specificColumnsList # None
DefaultTierInHand ==
    pc \in {"synapse", "table", "view", "emit"} /\ nonSynapseDefaultColumnList # None

\* the names of the exclusion list with their letters folded to lower case
ExclusionNamesFolded ==
    {Lower(defaultMetadataToExclusionList[k]) : k \in 1..Len(defaultMetadataToExclusionList)}

\* C4: no entry of the entity-specific tier has a logical name that equals, up
\* to letter case, a name of the exclusion list; and filtering the catalog by
\* the exclusion list a second time changes nothing.
C4_ExcludedNamesNeverInSpecificTier ==
    /\ SpecificTierInHand =>
          \A i \in 1..Len(specificColumnsList[1]) :
             Lower(BeforeFirstBlank(specificColumnsList[1][i])) \notin ExclusionNamesFolded
    /\ df # None => Filter(df[1], LAMBDA r : ~IsExcluded(r.name)) = df[1]

C4_Witness ==
    /\ SpecificTierInHand
    /\ tableName = Account
    /\ [i \in 1..Len(df_parquet) |-> df_parquet[i].name] = <<StateCodeColumn, NameColumn>>
    /\ ColumnNames(specificColumnsList[1]) = <<NameColumn>>

Repeat(x, n) == [i \in 1..n |-> x]
Count(s, Test(_)) == Cardinality({i \in 1..Len(s) : Test(s[i])})

\* the position of the first row of a sheet with the key (entity, name); 0
\* when there is none
FirstRow(sheet, entity, name) ==
    IF \E i \in 1..Len(sheet) : sheet[i].entity = entity /\ sheet[i].name = name
    THEN CHOOSE i \in 1..Len(sheet) :
            /\ sheet[i].entity = entity /\ sheet[i].name = name
            /\ \A j \in 1..(i - 1) : ~(sheet[j].entity = entity /\ sheet[j].name = name)
    ELSE 0

DefaultTierInRegistryOrder ==
    DefaultTierInHand =>
       nonSynapseDefaultColumnList[1] =
          Flatten([i \in 1..Len(df_non_synapse_default_col_n_types.rows) |->
             LET d == df_non_synapse_default_col_n_types.rows[i]
             IN  Repeat(d.name \o <<" ">> \o d.dataType,
                        Count(df_parquet,
                              LAMBDA t : t.entity = tableName /\ t.name = d.name))])

\* C9 as stated: the entity-specific tier lists its columns in the row order
\* of the source sheet, and the default tier in the order of the registry.
C9_SpecificTierInSourceOrder ==
    /\ SpecificTierInHand =>
          LET names == ColumnNames(specificColumnsList[1])
          IN  \A i, j \in 1..Len(names) :
                 (/\ i < j
                  /\ FirstRow(df_excel, tableName, names[i]) # 0
                  /\ FirstRow(df_excel, tableName, names[j]) # 0)
                 => FirstRow(df_excel, tableName, names[i])
                       <= FirstRow(df_excel, tableName, names[j])
    /\ DefaultTierInRegistryOrder

\* C9 amended: the entity-specific tier lists, in the row order of the target
\* sheet, the target rows of the entity that are not in the exclusion list,
\* each once per source row (Virtual ones left out) of the same key, or once
\* when there is none; the default tier lists the registry rows in the order
\* of the registry.
C9_SpecificTierInTargetOrder ==
    /\ SpecificTierInHand =>
          ColumnNames(specificColumnsList[1]) =
             Flatten([i \in 1..Len(df_parquet) |->
                LET t == df_parquet[i]
                    matches == Count(df_excel, LAMBDA r :
                                  /\ r.attributeType # "Virtual"
                                  /\ r.entity = t.entity /\ r.name = t.name)
                IN  IF t.entity # tableName
                       \/ Lower(t.name) \in ExclusionNamesFolded
                    THEN <<>>
                    ELSE Repeat(t.name, IF matches = 0 THEN 1 ELSE matches)])
    /\ DefaultTierInRegistryOrder

C9_Witness ==
    /\ SpecificTierInHand
    /\ DefaultTierInHand
    /\ tableName = Account
    /\ [i \in 1..Len(df_excel) |-> df_excel[i].name] = <<NameColumn, AmountColumn>>
    /\ [i \in 1..Len(df_excel) |-> df_excel[i].attributeType] = <<"Text", "Currency">>
    /\ [i \in 1..Len(df_parquet) |-> df_parquet[i].name] = <<AmountColumn, NameColumn>>
    /\ specificColumnsList[1] =
          << AmountColumn \o <<" ">> \o DecimalOpen \o <<"4",")">>,
             NameColumn \o <<" ">> \o NVarcharOpen \o <<"2","0","0",")">> >>
    /\ df_non_synapse_default_col_n_types.rows = <<StateCodeDefault, NameDefault>>
    /\ nonSynapseDefaultColumnList[1] = << NameColumn \o <<" ">> \o TyVARCHAR100 >>

PerEntitySteps ==
    {"populateEntityColumnList", "populateNonSynapseDefaultColumnList",
     "populateSynapseDefaultColumnList", "createExternalTable",
     "createViewOnExternalTable"}

\* C10: a per-entity step that fails logs the error and raises it to its
\* caller: once such a step has logged an error the run is aborted, and no
\* step returns a value in place of the error.
C10_StepErrorsAreRaised ==
    \A i \in 1..Len(errors) :
       errors[i].function \in PerEntitySteps
       => errors[i].raised /\ pc = "raised"

-----------------------------------------------------------------------------
(* The non-synapse default tier, checked under SpecWrite *)

DefaultEntry(d) == d.name \o <<" ">> \o d.dataType

\* a target row of the entity in hand has the name, letter case set aside
InTargetOfEntityFolded(name) ==
    \E i \in 1..Len(df_parquet) :
       /\ df_parquet[i].entity = tableName
       /\ Lower(df_parquet[i].name) = Lower(name)

TimesInDefaultTier(d) ==
    Cardinality({k \in 1..Len(nonSynapseDefaultColumnList[1]) :
                    nonSynapseDefaultColumnList[1][k] = DefaultEntry(d)})

\* C11: for every entity the non-synapse default tier holds a row of the
\* default registry exactly once when its logical name is, compared without
\* regard to letter case, the logical name of a target row of the entity, and
\* not at all otherwise; target rows repeated for the same entity and name do
\* not repeat the entry.
C11_DefaultTierOncePerPresentName ==
    DefaultTierInHand =>
       \A i \in 1..Len(df_non_synapse_default_col_n_types.rows) :
          LET d == df_non_synapse_default_col_n_types.rows[i]
          IN  TimesInDefaultTier(d) = IF InTargetOfEntityFolded(d.name) THEN 1 ELSE 0

\* the part of C11 about letter case alone: a registry row whose name is that
\* of one target row of the entity up to letter case is in the tier
C11_FoldedNameIsJoined ==
    DefaultTierInHand =>
       \A i \in 1..Len(df_non_synapse_default_col_n_types.rows) :
          LET d == df_non_synapse_default_col_n_types.rows[i]
          IN  InTargetOfEntityFolded(d.name) => TimesInDefaultTier(d) >= 1

\* the part of C11 about repeated target rows alone
C11_RepeatedTargetRowsJoinOnce ==
    DefaultTierInHand =>
       \A i \in 1..Len(df_non_synapse_default_col_n_types.rows) :
          TimesInDefaultTier(df_non_synapse_default_col_n_types.rows[i]) <= 1

\* what the merge on line 155 gives: each registry row once per target row
\* of the entity with the same name, written the same way
C11_HoldsForExactNames ==
    DefaultTierInHand =>
       \A i \in 1..Len(df_non_synapse_default_col_n_types.rows) :
          LET d == df_non_synapse_default_col_n_types.rows[i]
          IN  TimesInDefaultTier(d) =
                 Count(df_parquet, LAMBDA t : t.entity = tableName /\ t.name = d.name)

-----------------------------------------------------------------------------
(* The files writeScripts has written, checked under SpecRun *)

\* the number of configured entities whose scripts have been emitted
EntitiesEmitted ==
    IF tableIndex = 0 THEN 0
    ELSE IF pc \in {"combine", "done"} THEN Len(config.tables)
    ELSE tableIndex - 1

\* the two files of the j-th configured entity are the (2j-1)-th and the 2j-th
\* file written, and hold a table script and a view script of that entity
FilesOfEntity(j) ==
    LET entity == config.tables[j]
    IN  /\ files[2 * j - 1].name = TableScriptPrefix \o entity \o ScriptSuffix
        /\ StartsWith(files[2 * j - 1].content,
                      TableText0 \o ConfigSchemaName \o TableText1 \o entity \o TableText2)
        /\ files[2 * j].name = ViewScriptPrefix \o entity \o ScriptSuffix
        /\ StartsWith(files[2 * j].content,
                      ViewText0 \o ConfigSchemaName \o ViewText1 \o entity \o ViewText2)

\* C12: the entities are processed in configured order and the files of an
\* entity are written only once its table script and its view script are both
\* rendered: in per-entity mode the files written are, at every moment, the
\* two files of each entity already emitted, in configured order, so when the
\* run is aborted at entity k there is no file of entity k or of a later one
\* and the files of the entities before k remain; in combined mode no file is
\* written before the loop has ended, so an aborted run writes neither
\* combined file.
C12_FilesOnlyOfRenderedEntities ==
    /\ ~allScriptsInOne =>
          /\ Len(files) = 2 * EntitiesEmitted
          /\ \A j \in 1..EntitiesEmitted : FilesOfEntity(j)
    /\ allScriptsInOne =>
          /\ pc # "done" => files = <<>>
          /\ pc = "done" =>
                /\ Len(files) = 2
                /\ files[1].name = CombinedExternalTableScriptName
                /\ files[2].name = CombinedViewScriptName
    /\ pc = "emit" =>
          /\ externalTableScript # None /\ viewScript # None
          /\ StartsWith(externalTableScript[1],
                TableText0 \o ConfigSchemaName \o TableText1 \o tableName \o TableText2)
          /\ StartsWith(viewScript[1],
                ViewText0 \o ConfigSchemaName \o ViewText1 \o tableName \o ViewText2)

\* the run is aborted at the second entity, whose view cannot be rendered,
\* after the two files of the first entity were written
C12_Witness ==
    /\ pc = "raised"
    /\ tableIndex = 2
    /\ ~allScriptsInOne
    /\ externalTableScript # None
    /\ StartsWith(externalTableScript[1],
          TableText0 \o ConfigSchemaName \o TableText1 \o config.tables[2] \o TableText2)
    /\ Len(files) = 2

\* the same abort in combined mode, the scripts of the first entity held in
\* the combined texts
C12_WitnessCombined ==
    /\ pc = "raised"
    /\ tableIndex = 2
    /\ allScriptsInOne
    /\ combinedExternalScript # <<>>
    /\ files = <<>>

=============================================================================
